---------------------------- MODULE Spec2Model ----------------------------
(***************************************************************************)
(* popup-gpt: the streaming response path.                                 *)
(*                                                                         *)
(*   misc.rs     SSEStream      frame parser over a blocking byte source   *)
(*   model.rs    merge_delta    accumulator of partial responses           *)
(*   chatgpt.rs  ChatGPT        conversation, ask, ask_stream              *)
(*   main.rs     App::update    UI poll, worker thread, relay thread       *)
(*                                                                         *)
(* Representation notes.                                                   *)
(*  - A byte is a one-character string; "x.." names a non-ASCII byte.      *)
(*  - Option<T> is a sequence of length 0 (None) or 1 (Some).              *)
(*  - The Vec<u8> buffer is kept as its written prefix `buf` plus its      *)
(*    length `cap`; every byte past the prefix still holds the 0 it was    *)
(*    created with.                                                        *)
(*  - A usize that wrapped below zero (release build) is kept as the       *)
(*    negative number v, standing for 2^64 + v.                            *)
(*  - JSON text is stood in for by a compact wire code (see Decode).       *)
(***************************************************************************)
EXTENDS Integers, Sequences, FiniteSets, TLC

VARIABLES
    \* ---- ChatGPT (chatgpt.rs) ----
    conversation,   \* Assistant.conversation : Vec<Message>
    \* ---- the call running against the client ----
    cur,            \* id of the call executing ask / ask_stream, 0 when none
    pc,             \* position of that call: "idle", or "read" (blocked in source.read)
    question,       \* the call's question
    request,        \* the CompletionRequest handed to send_request (last built)
    response,       \* request_stream's accumulator `response`
    result,         \* per call: outcome of ask / ask_stream
    preConv,        \* per call: Conversation when the call was entered (history)
    callKind,       \* per call: "ask" or "ask_stream" (history)
    ncalls,         \* number of calls entered so far
    \* ---- SSEStream (misc.rs) ----
    src,            \* bytes the source has not delivered yet
    stream,         \* the whole byte stream of the call (history)
    buf, cap, filled,
    yielded,        \* per call: payloads next() returned as Some, in order (history)
    readFailed,     \* per call: a read returned Err (history)
    \* ---- channels (main.rs) ----
    chan,           \* per call: the (tx_stream, rx_stream) queue
    chanOpen,       \* per call: tx_stream not yet dropped
    sentLog,        \* per call: every partial handed to sender.send (history)
    com,            \* the UI channel App.com
    fwdLog,         \* per call: the partials the relay enqueued on com (history)
    flushes,        \* per call: Flush messages enqueued on com (history)
    \* ---- threads (main.rs) ----
    worker,         \* per call: producer thread position
    relay,          \* per call: relay thread position
    poisoned,       \* RwLock poisoned by a panic under the write guard
    \* ---- App (main.rs) ----
    loading, uiResponse, uiPc,
    uiCall,         \* call the UI started last (history)
    prompt,         \* per call: the prompt the Enter handler cloned for it
    shown,          \* pairs <<c, d>>: a fragment of call c was appended to the
                    \* response while call d was the one displayed (history)
    dropped         \* calls a partial of which the UI dequeued while not loading (history)

clientVars == <<conversation, cur, pc, question, request, response, result,
                preConv, callKind, ncalls>>
sseVars    == <<src, stream, buf, cap, filled, yielded, readFailed>>
chanVars   == <<chan, chanOpen, sentLog>>
appVars    == <<com, fwdLog, flushes, worker, relay, poisoned, loading,
                uiResponse, uiPc, uiCall, prompt, shown, dropped>>
vars       == <<clientVars, sseVars, chanVars, appVars>>

-----------------------------------------------------------------------------
(* Bounds *)
MaxCalls == 2

Calls == 1..MaxCalls

-----------------------------------------------------------------------------
(* Option, sequences *)
None == <<>>
Some(x) == <<x>>
IsSome(o) == Len(o) = 1
Unwrap(o) == o[1]

IsPrefix(s, t) == Len(s) <= Len(t) /\ SubSeq(t, 1, Len(s)) = s

Min(a, b) == IF a < b THEN a ELSE b

-----------------------------------------------------------------------------
(* Bytes and frames *)
NL == "\n"
NUL == "x00"
PREFIX == <<"d", "a", "t", "a", ":", " ">>
DONE == <<"[", "D", "O", "N", "E", "]">>
DELIM == <<NL, NL>>
REPLACEMENT == <<"xEF", "xBF", "xBD">>

Frame(payload) == PREFIX \o payload \o DELIM

RECURSIVE Concat(_)
Concat(ss) == IF ss = <<>> THEN <<>> ELSE Head(ss) \o Concat(Tail(ss))


-----------------------------------------------------------------------------
(* String::from_utf8_lossy: a valid sequence is kept, a maximal ill-formed *)
(* part becomes U+FFFD (three bytes), so offsets into the result are not   *)
(* offsets into the bytes once something was replaced.                     *)
Lead2 == {"xC3"}
Lead3 == {"xEF"}
Cont == {"xA9", "xBF", "xBD"}
NonAscii == Lead2 \cup Lead3 \cup Cont \cup {"xFF"}

RECURSIVE Lossy(_)
Lossy(s) ==
    LET high == {i \in 1..Len(s) : s[i] \in NonAscii}
    IN  IF high = {} THEN s
        ELSE LET at == CHOOSE i \in high : \A j \in high : i <= j
                 t == SubSeq(s, at, Len(s))
                 b == t[1]
                 n == Len(t)
                 tail == IF b \in Lead2 /\ n >= 2 /\ t[2] \in Cont
                              THEN <<b, t[2]>> \o Lossy(SubSeq(t, 3, n))
                         ELSE IF b \in Lead3 /\ n >= 3 /\ t[2] \in Cont /\ t[3] \in Cont
                              THEN <<b, t[2], t[3]>> \o Lossy(SubSeq(t, 4, n))
                         ELSE IF b \in Lead3 /\ n >= 2 /\ t[2] \in Cont
                              THEN REPLACEMENT \o Lossy(SubSeq(t, 3, n))
                         ELSE REPLACEMENT \o Lossy(Tail(t))
             IN  SubSeq(s, 1, at - 1) \o tail

(* str::find("\n\n"): byte offset (from 0) of the first match, -1 for None *)
FindDelim(s) ==
    LET hits == {i \in 1..(Len(s) - 1) : s[i] = NL /\ s[i + 1] = NL}
    IN  IF hits = {} THEN -1
        ELSE (CHOOSE i \in hits : \A j \in hits : i <= j) - 1

-----------------------------------------------------------------------------
(* SSEStream (misc.rs) *)
InitialCapacity == 4096
MinSlack == 128
PrefixLen == 6
DelimLen == 2

(* the byte at offset i (from 0) of the Vec whose written prefix is b *)
ByteAt(b, i) == IF i < Len(b) THEN b[i + 1] ELSE NUL

(* &buf[from..to] *)
Slice(b, from, to) == [k \in 1..(to - from) |-> ByteAt(b, from + k - 1)]

(* source.read(&mut buf[filled..]) that delivered `chunk` *)
ReadInto(b, f, chunk) ==
    SubSeq(b, 1, f) \o chunk \o SubSeq(b, f + Len(chunk) + 1, Len(b))

(* buf.copy_within(from..to, 0) *)
CopyWithin(b, from, to) ==
    SubSeq(b, from + 1, to) \o SubSeq(b, to - from + 1, Len(b))

(* next(), line 21-23: the capacity after the slack check *)
EnterNext(c, f) == IF c - f < MinSlack THEN c * 2 ELSE c

(* the region the delimiter is searched in, line 32: the whole Vec *)
ScanRegion(b, f) == b

(* SSEScan without the comparison with the sentinel *)
SSEScanNoSentinel(b, c, f, oc) ==
    LET sp == FindDelim(Lossy(ScanRegion(b, f)))
        same == [kind |-> "none", data |-> <<>>, buf |-> b, filled |-> f]
    IN  IF sp < 0 THEN same
        ELSE IF sp < PrefixLen \/ sp > c THEN [same EXCEPT !.kind = "panic"]
        ELSE LET data == Lossy(Slice(b, PrefixLen, sp))
                 used == sp + DelimLen
             IN  IF f < used /\ oc
                 THEN [same EXCEPT !.kind = "panic", !.data = data]
                 ELSE [kind |-> "yield", data |-> data,
                       buf |-> IF f > used THEN CopyWithin(b, used, f) ELSE b,
                       filled |-> f - used]

(* next(), line 32-51, after a read brought the buffer to (b, f).          *)
(* oc: the build checks arithmetic overflow (debug) or wraps (release).    *)
(* kind: "none" no delimiter, "done" sentinel, "yield", "panic".           *)
SSEScan(b, c, f, oc) ==
    LET sp == FindDelim(Lossy(ScanRegion(b, f)))
        same == [kind |-> "none", data |-> <<>>, buf |-> b, filled |-> f]
    IN  IF sp < 0 THEN same
        ELSE IF sp < PrefixLen \/ sp > c THEN [same EXCEPT !.kind = "panic"]
        ELSE LET data == Lossy(Slice(b, PrefixLen, sp))
                 used == sp + DelimLen
             IN  IF data = DONE THEN [same EXCEPT !.kind = "done"]
                 ELSE IF f < used /\ oc
                      THEN [same EXCEPT !.kind = "panic", !.data = data]
                 ELSE [kind |-> "yield", data |-> data,
                       buf |-> IF f > used THEN CopyWithin(b, used, f) ELSE b,
                       filled |-> f - used]


-----------------------------------------------------------------------------
(* model.rs *)
Message(role, content) == [role |-> role, content |-> content]
MessageSystem(msg) == Message("system", msg)
MessageUser(msg) == Message("user", msg)

MessageDelta(role, content) == [role |-> role, content |-> content]

(* Choice::default() *)
ChoiceDefault ==
    [index |-> 0, message |-> None, delta |-> None, finish_reason |-> None]

(* CompletionResponse::default(); object, created and usage are carried by *)
(* no operation modelled here and are left out.                            *)
ResponseDefault == [id |-> "", choices |-> <<>>]

(* PadChoices pushing one default Choice more than the index asks for *)
RECURSIVE PadChoicesOneMore(_, _)
PadChoicesOneMore(choices, index) ==
    IF Len(choices) <= index + 1
    THEN PadChoicesOneMore(Append(choices, ChoiceDefault), index)
    ELSE choices

(* merge_delta, line 153-155: gap filling *)
RECURSIVE PadChoices(_, _)
PadChoices(choices, index) ==
    IF Len(choices) <= index
    THEN PadChoices(Append(choices, ChoiceDefault), index)
    ELSE choices

(* MergeChoice putting the incoming text in front of the text held *)
MergeChoicePrepend(choices, choice) ==
    LET padded == PadChoices(choices, choice.index)
        own == padded[choice.index + 1]
    IN  IF ~IsSome(choice.delta) THEN [ok |-> TRUE, choices |-> padded]
        ELSE LET delta == Unwrap(choice.delta)
                 msg1 == IF IsSome(delta.role)
                         THEN Some(Message(Unwrap(delta.role), <<>>))
                         ELSE own.message
             IN  IF ~IsSome(delta.content)
                 THEN [ok |-> TRUE,
                       choices |-> [padded EXCEPT ![choice.index + 1].message = msg1]]
                 ELSE IF ~IsSome(msg1)
                 THEN [ok |-> FALSE,
                       choices |-> [padded EXCEPT ![choice.index + 1].message = msg1]]
                 ELSE [ok |-> TRUE,
                       choices |-> [padded EXCEPT ![choice.index + 1].message =
                           Some(Message(Unwrap(msg1).role,
                                        Unwrap(delta.content) \o Unwrap(msg1).content))]]

(* MergeChoice writing to the last Choice held, not to the one at the index *)
MergeChoiceIntoLast(choices, choice) ==
    LET padded == PadChoices(choices, choice.index)
        at == Len(padded)
        own == padded[at]
    IN  IF ~IsSome(choice.delta) THEN [ok |-> TRUE, choices |-> padded]
        ELSE LET delta == Unwrap(choice.delta)
                 msg1 == IF IsSome(delta.role)
                         THEN Some(Message(Unwrap(delta.role), <<>>))
                         ELSE own.message
             IN  IF ~IsSome(delta.content)
                 THEN [ok |-> TRUE, choices |-> [padded EXCEPT ![at].message = msg1]]
                 ELSE IF ~IsSome(msg1)
                 THEN [ok |-> FALSE, choices |-> [padded EXCEPT ![at].message = msg1]]
                 ELSE [ok |-> TRUE,
                       choices |-> [padded EXCEPT ![at].message =
                           Some(Message(Unwrap(msg1).role,
                                        Unwrap(msg1).content \o Unwrap(delta.content)))]]

(* merge_delta, line 153-174, for one incoming choice.  ok = FALSE: the    *)
(* unwrap of line 170 panicked.                                            *)
MergeChoice(choices, choice) ==
    LET padded == PadChoices(choices, choice.index)
        own == padded[choice.index + 1]
    IN  IF ~IsSome(choice.delta) THEN [ok |-> TRUE, choices |-> padded]
        ELSE LET delta == Unwrap(choice.delta)
                 msg1 == IF IsSome(delta.role)
                         THEN Some(Message(Unwrap(delta.role), <<>>))
                         ELSE own.message
             IN  IF ~IsSome(delta.content)
                 THEN [ok |-> TRUE,
                       choices |-> [padded EXCEPT ![choice.index + 1].message = msg1]]
                 ELSE IF ~IsSome(msg1)
                 THEN [ok |-> FALSE,
                       choices |-> [padded EXCEPT ![choice.index + 1].message = msg1]]
                 ELSE [ok |-> TRUE,
                       choices |-> [padded EXCEPT ![choice.index + 1].message =
                           Some(Message(Unwrap(msg1).role,
                                        Unwrap(msg1).content \o Unwrap(delta.content)))]]

RECURSIVE MergeChoices(_, _)
MergeChoices(choices, incoming) ==
    IF incoming = <<>> THEN [ok |-> TRUE, choices |-> choices]
    ELSE LET one == MergeChoice(choices, Head(incoming))
         IN  IF ~one.ok THEN one ELSE MergeChoices(one.choices, Tail(incoming))

(* CompletionResponse::merge_delta(&mut self, other) *)
MergeDelta(self, other) ==
    LET m == MergeChoices(self.choices, other.choices)
    IN  [ok |-> m.ok, resp |-> [self EXCEPT !.choices = m.choices]]

-----------------------------------------------------------------------------
(* serde_json::from_str::<CompletionResponse>.  The JSON text is stood in  *)
(* for by a wire code over bytes:                                          *)
(*    body   ::= "E"  |  choice ("," choice)*        "E": "choices": []    *)
(*    choice ::= index kind text                                           *)
(*    kind   ::= "R" delta with role and content     "r" delta with role   *)
(*               "c" delta with content              "e" delta {}          *)
(*               "n" neither delta nor message       "m" message           *)
(* Every other byte string is a decode error.                              *)
IndexOf == ("0" :> 0) @@ ("1" :> 1) @@ ("2" :> 2)
Kinds == {"R", "r", "c", "e", "n", "m"}
TextBytes == {"H", "e", "l", "o", "i", "A", "B", "xC3", "xA9", "xEF", "xBF", "xBD"}
SEP == ","

RECURSIVE SplitOn(_, _)
SplitOn(s, sep) ==
    LET at == {i \in 1..Len(s) : s[i] = sep}
    IN  IF at = {} THEN <<s>>
        ELSE LET i == CHOOSE k \in at : \A j \in at : k <= j
             IN  <<SubSeq(s, 1, i - 1)>> \o SplitOn(SubSeq(s, i + 1, Len(s)), sep)

ChoiceWellFormed(t) ==
    /\ Len(t) >= 2
    /\ t[1] \in DOMAIN IndexOf
    /\ t[2] \in Kinds
    /\ \A i \in 3..Len(t) : t[i] \in TextBytes
    /\ t[2] \in {"r", "e", "n"} => Len(t) = 2

DecodeChoice(t) ==
    LET text == SubSeq(t, 3, Len(t))
        kind == t[2]
    IN  [index |-> IndexOf[t[1]],
         message |-> IF kind = "m" THEN Some(Message("assistant", text)) ELSE None,
         delta |-> CASE kind = "R" -> Some(MessageDelta(Some("assistant"), Some(text)))
                     [] kind = "r" -> Some(MessageDelta(Some("assistant"), None))
                     [] kind = "c" -> Some(MessageDelta(None, Some(text)))
                     [] kind = "e" -> Some(MessageDelta(None, None))
                     [] OTHER -> None,
         finish_reason |-> None]

(* Some(response), or None for a decode error *)
Decode(body) ==
    IF body = <<"E">> THEN Some([id |-> "chatcmpl", choices |-> <<>>])
    ELSE LET parts == SplitOn(body, SEP)
         IN  IF \A i \in 1..Len(parts) : ChoiceWellFormed(parts[i])
             THEN Some([id |-> "chatcmpl",
                        choices |-> [i \in 1..Len(parts) |-> DecodeChoice(parts[i])]])
             ELSE None


-----------------------------------------------------------------------------
(* chatgpt.rs *)
DEFAULT_MODEL == "gpt-3.5-turbo"
SYSTEM_MSG == <<"s", "y", "s">>

(* GenerateRequest sending the Conversation alone *)
GenerateRequestNoSystem(conv) ==
    [model |-> DEFAULT_MODEL,
     messages |-> conv,
     stream |-> None]

(* Assistant::generate_request *)
GenerateRequest(conv) ==
    [model |-> DEFAULT_MODEL,
     messages |-> <<MessageSystem(SYSTEM_MSG)>> \o conv,
     stream |-> None]

(* Outcomes of a call.  Err(..) is returned to the caller; a panic unwinds  *)
(* the calling thread.                                                     *)
Errs == {"err_transport", "err_decode"}
Panics == {"panic_index", "panic_unwrap", "panic_merge", "panic_sse"}

(* AskFinish returning the response without appending its message *)
AskFinishNoAppend(conv, res) ==
    IF res.fail # "" THEN [result |-> res.fail, conversation |-> conv]
    ELSE IF res.resp.choices = <<>>
         THEN [result |-> "panic_index", conversation |-> conv]
    ELSE IF ~IsSome(res.resp.choices[1].message)
         THEN [result |-> "panic_unwrap", conversation |-> conv]
    ELSE [result |-> "ok", conversation |-> conv]

(* AskFinish appending the first message before looking at the failure *)
AskFinishAppendFirst(conv, res) ==
    IF res.resp.choices = <<>>
    THEN [result |-> IF res.fail # "" THEN res.fail ELSE "panic_index",
          conversation |-> conv]
    ELSE IF ~IsSome(res.resp.choices[1].message)
    THEN [result |-> IF res.fail # "" THEN res.fail ELSE "panic_unwrap",
          conversation |-> conv]
    ELSE [result |-> IF res.fail # "" THEN res.fail ELSE "ok",
          conversation |-> Append(conv, Unwrap(res.resp.choices[1].message))]

(* ask line 109-115, ask_stream line 127-133: what follows the request.    *)
(* res.fail # "": request / request_stream returned that Err, passed on by *)
(* the `?`; otherwise res.resp is the response it returned.                *)
AskFinish(conv, res) ==
    IF res.fail # "" THEN [result |-> res.fail, conversation |-> conv]
    ELSE IF res.resp.choices = <<>>
         THEN [result |-> "panic_index", conversation |-> conv]
    ELSE IF ~IsSome(res.resp.choices[1].message)
         THEN [result |-> "panic_unwrap", conversation |-> conv]
    ELSE [result |-> "ok",
          conversation |-> Append(conv, Unwrap(res.resp.choices[1].message))]

(* request_stream line 92-95 for one event the parser yielded *)
OnEvent(resp, event) ==
    LET d == Decode(event)
    IN  IF ~IsSome(d) THEN [kind |-> "err_decode", resp |-> resp, sent |-> <<>>]
        ELSE LET m == MergeDelta(resp, Unwrap(d))
             IN  IF ~m.ok THEN [kind |-> "panic_merge", resp |-> m.resp, sent |-> <<>>]
                 ELSE [kind |-> "ok", resp |-> m.resp, sent |-> <<Unwrap(d)>>]

-----------------------------------------------------------------------------
(* Inputs *)
Questions == {<<"q", "1">>, <<"q", "2">>}

RoleFrame == Frame(<<"0", "R">>)
HiFrame == Frame(<<"0", "c", "H", "i">>)
DoneFrame == Frame(DONE)

StreamHi == RoleFrame \o HiFrame \o DoneFrame
StreamEmpty == DoneFrame
StreamBad == Frame(<<"0", "R", "A">>) \o Frame(<<"!">>) \o DoneFrame
StreamAfter == Frame(<<"0", "R", "A">>) \o DoneFrame \o Frame(<<"0", "c", "B">>)
StreamNoRole == Frame(<<"0", "c", "A">>) \o DoneFrame
StreamCut == Frame(<<"0", "R", "A">>) \o Frame(<<"0", "c", "B">>)

Streams == {StreamHi, StreamEmpty, StreamBad, StreamAfter, StreamNoRole, StreamCut}

Bodies == {<<"0", "m", "H", "i">>, <<"E">>, <<"0", "n">>, <<"{">>}

-----------------------------------------------------------------------------
(* The call running against the client *)
(* ask / ask_stream is left: the outcome goes to the caller, the sender and *)
(* the SSEStream that request_stream owned are dropped.                    *)
EndCall(c, outcome, conv) ==
    /\ result' = [result EXCEPT ![c] = outcome]
    /\ conversation' = conv
    /\ cur' = 0
    /\ pc' = "idle"
    /\ chanOpen' = [chanOpen EXCEPT ![c] = FALSE]
    /\ src' = <<>>
    /\ buf' = <<>>
    /\ cap' = InitialCapacity
    /\ filled' = 0

(* ask_stream up to the first blocking read: line 123-127, 84-89, 20-26 *)
AskStreamEnter(c, q, transportOk, s) ==
    LET conv == Append(conversation, MessageUser(q))
    IN  /\ cur = 0
        /\ ncalls' = ncalls + 1
        /\ question' = q
        /\ preConv' = [preConv EXCEPT ![c] = conversation]
        /\ request' = Some([GenerateRequest(conv) EXCEPT !.stream = Some(TRUE)])
        /\ response' = ResponseDefault
        /\ callKind' = [callKind EXCEPT ![c] = "ask_stream"]
        /\ IF transportOk
           THEN /\ conversation' = conv
                /\ cur' = c
                /\ pc' = "read"
                /\ result' = [result EXCEPT ![c] = "running"]
                /\ stream' = s
                /\ src' = s
                /\ buf' = <<>>
                /\ cap' = EnterNext(InitialCapacity, 0)
                /\ filled' = 0
                /\ UNCHANGED <<yielded, readFailed, chanOpen>>
           ELSE /\ EndCall(c, AskFinish(conv, [fail |-> "err_transport",
                                                 resp |-> ResponseDefault]).result,
                           AskFinish(conv, [fail |-> "err_transport",
                                            resp |-> ResponseDefault]).conversation)
                /\ UNCHANGED <<stream, yielded, readFailed>>
        /\ UNCHANGED <<chan, sentLog>>

(* the sequence ended: request_stream returns Ok(response), line 98 *)
StreamEnded(c) ==
    LET fin == AskFinish(conversation, [fail |-> "", resp |-> response])
    IN  EndCall(c, fin.result, fin.conversation)

(* a read of next() returned Err: line 53-60 *)
ReadErr(c) ==
    /\ cur = c
    /\ pc = "read"
    /\ readFailed' = [readFailed EXCEPT ![c] = TRUE]
    /\ StreamEnded(c)
    /\ UNCHANGED <<question, request, response, preConv, ncalls, callKind>>
    /\ UNCHANGED <<stream, yielded>>
    /\ UNCHANGED <<chan, sentLog>>

(* a read of next() returned Ok(n): line 26-51, then the loop body of      *)
(* request_stream and the entry of the following next()                    *)
ReadOk(c, n, oc) ==
    /\ cur = c
    /\ pc = "read"
    /\ n \in 0..Min(Len(src), cap - filled)
    /\ LET b1 == ReadInto(buf, filled, SubSeq(src, 1, n))
           f1 == filled + n
           r == SSEScan(b1, cap, f1, oc)
           ev == OnEvent(response, r.data)
           rest == SubSeq(src, n + 1, Len(src))
       IN  /\ yielded' = IF r.kind = "yield"
                         THEN [yielded EXCEPT ![c] = Append(@, r.data)]
                         ELSE yielded
           /\ CASE r.kind = "none" ->
                     /\ src' = rest
                     /\ buf' = r.buf
                     /\ filled' = r.filled
                     /\ UNCHANGED <<conversation, cur, pc, result, response, cap,
                                    chan, chanOpen, sentLog>>
                [] r.kind = "done" ->
                     /\ StreamEnded(c)
                     /\ UNCHANGED <<response, chan, sentLog>>
                [] r.kind = "panic" ->
                     /\ EndCall(c, "panic_sse", conversation)
                     /\ UNCHANGED <<response, chan, sentLog>>
                [] r.kind = "yield" /\ ev.kind = "ok" /\ r.filled >= 0 ->
                     /\ src' = rest
                     /\ buf' = r.buf
                     /\ filled' = r.filled
                     /\ response' = ev.resp
                     /\ chan' = [chan EXCEPT ![c] = @ \o ev.sent]
                     /\ sentLog' = [sentLog EXCEPT ![c] = @ \o ev.sent]
                     /\ cap' = EnterNext(cap, r.filled)
                     /\ UNCHANGED <<conversation, cur, pc, result, chanOpen>>
                [] r.kind = "yield" /\ ev.kind = "ok" /\ r.filled < 0 ->
                     \* the slice of line 26 starts past the end of the Vec
                     /\ response' = ev.resp
                     /\ chan' = [chan EXCEPT ![c] = @ \o ev.sent]
                     /\ sentLog' = [sentLog EXCEPT ![c] = @ \o ev.sent]
                     /\ EndCall(c, "panic_sse", conversation)
                [] r.kind = "yield" /\ ev.kind = "err_decode" ->
                     LET fin == AskFinish(conversation,
                                          [fail |-> ev.kind, resp |-> ev.resp])
                     IN  /\ response' = ev.resp
                         /\ EndCall(c, fin.result, fin.conversation)
                         /\ UNCHANGED <<chan, sentLog>>
                [] r.kind = "yield" /\ ev.kind = "panic_merge" ->
                     /\ response' = ev.resp
                     /\ EndCall(c, ev.kind, conversation)
                     /\ UNCHANGED <<chan, sentLog>>
    /\ UNCHANGED <<question, request, preConv, ncalls, callKind, stream, readFailed>>

(* ChatGPT::ask *)
Ask(c, q, transportOk, body) ==
    LET conv == Append(conversation, MessageUser(q))
        d == Decode(body)
        fin == AskFinish(conv,
                   [fail |-> IF ~transportOk THEN "err_transport"
                             ELSE IF ~IsSome(d) THEN "err_decode" ELSE "",
                    resp |-> IF IsSome(d) THEN Unwrap(d) ELSE ResponseDefault])
    IN  /\ cur = 0
        /\ ncalls' = ncalls + 1
        /\ question' = q
        /\ preConv' = [preConv EXCEPT ![c] = conversation]
        /\ request' = Some(GenerateRequest(conv))
        /\ callKind' = [callKind EXCEPT ![c] = "ask"]
        /\ result' = [result EXCEPT ![c] = fin.result]
        /\ conversation' = fin.conversation
        /\ UNCHANGED <<cur, pc, response>>
        /\ UNCHANGED sseVars
        /\ UNCHANGED chanVars

(* ChatGPT::clear_conversation *)
ClearConversation ==
    /\ cur = 0
    /\ conversation' = <<>>
    /\ UNCHANGED <<cur, pc, question, request, response, result, preConv, ncalls,
                   callKind>>
    /\ UNCHANGED sseVars
    /\ UNCHANGED chanVars


-----------------------------------------------------------------------------
(* State after construction: ChatGPT::new, App::new *)
Init ==
    /\ conversation = <<>>
    /\ cur = 0
    /\ pc = "idle"
    /\ question = <<>>
    /\ request = None
    /\ response = ResponseDefault
    /\ result = [c \in Calls |-> "none"]
    /\ preConv = [c \in Calls |-> <<>>]
    /\ callKind = [c \in Calls |-> "none"]
    /\ ncalls = 0
    /\ src = <<>>
    /\ stream = <<>>
    /\ buf = <<>>
    /\ cap = InitialCapacity
    /\ filled = 0
    /\ yielded = [c \in Calls |-> <<>>]
    /\ readFailed = [c \in Calls |-> FALSE]
    /\ chan = [c \in Calls |-> <<>>]
    /\ chanOpen = [c \in Calls |-> TRUE]
    /\ sentLog = [c \in Calls |-> <<>>]
    /\ com = <<>>
    /\ fwdLog = [c \in Calls |-> <<>>]
    /\ flushes = [c \in Calls |-> 0]
    /\ worker = [c \in Calls |-> "none"]
    /\ relay = [c \in Calls |-> "none"]
    /\ poisoned = FALSE
    /\ loading = FALSE
    /\ uiResponse = <<>>
    /\ uiPc = "idle"
    /\ uiCall = 0
    /\ prompt = [c \in Calls |-> <<>>]
    /\ shown = {}
    /\ dropped = {}

-----------------------------------------------------------------------------
(* What one read of the source may deliver.  AnySizes: any number of the   *)
(* pending bytes, none included.  FrameSizes: the next whole frame or all  *)
(* that is pending (the transport handing over events as the server wrote  *)
(* them), and nothing once the stream is at its end.                       *)
AnySizes(s) == 0..Len(s)
FrameSizes(s) ==
    {Len(s)} \cup (IF FindDelim(s) >= 0 THEN {FindDelim(s) + DelimLen} ELSE {})

-----------------------------------------------------------------------------
(* Spec: one thread using the ChatGPT client (ask, ask_stream,             *)
(* clear_conversation) for up to MaxCalls calls, reads delivering frames.  *)
ClientStreams == {StreamHi, StreamBad, StreamEmpty, StreamNoRole}

ClientAskStream ==
    /\ ncalls < MaxCalls
    /\ \E q \in Questions, ok \in BOOLEAN, s \in ClientStreams :
           AskStreamEnter(ncalls + 1, q, ok, s)
    /\ UNCHANGED appVars

ClientAsk ==
    /\ ncalls < MaxCalls
    /\ \E q \in Questions, ok \in BOOLEAN, body \in Bodies :
           Ask(ncalls + 1, q, ok, body)
    /\ UNCHANGED appVars

ClientRead ==
    /\ cur # 0
    /\ \E n \in FrameSizes(src), oc \in BOOLEAN : ReadOk(cur, n, oc)
    /\ UNCHANGED appVars

ClientReadErr ==
    /\ cur # 0
    /\ ReadErr(cur)
    /\ UNCHANGED appVars

ClientClear ==
    /\ ClearConversation
    /\ UNCHANGED appVars

Next ==
    \/ ClientAskStream
    \/ ClientAsk
    \/ ClientRead
    \/ ClientReadErr
    \/ ClientClear

Spec == Init /\ [][Next]_vars


-----------------------------------------------------------------------------
(* SpecSSE: one ask_stream call (one SSEStream), the source delivering the *)
(* stream in chunks cut at any byte.                                       *)
SSEStart ==
    /\ ncalls = 0
    /\ \E q \in Questions, s \in Streams : AskStreamEnter(1, q, TRUE, s)
    /\ UNCHANGED appVars

SSERead ==
    /\ cur # 0
    /\ \E n \in AnySizes(src), oc \in BOOLEAN : ReadOk(cur, n, oc)
    /\ UNCHANGED appVars

SSEReadErr ==
    /\ cur # 0
    /\ ReadErr(cur)
    /\ UNCHANGED appVars

NextSSE ==
    \/ SSEStart
    \/ SSERead
    \/ SSEReadErr

SpecSSE == Init /\ [][NextSSE]_vars


-----------------------------------------------------------------------------
(* SpecLong: one ask_stream call whose stream holds a frame longer than    *)
(* the buffer the parser starts with, the source delivering large chunks.  *)
LongPayload == 4200

Filler(n) == [k \in 1..n |-> "A"]

StreamLong == Frame(<<"0", "R">> \o Filler(LongPayload)) \o DoneFrame
StreamShortLong ==
    Frame(<<"0", "R", "A">>) \o Frame(<<"0", "c">> \o Filler(LongPayload)) \o DoneFrame
StreamWide == Frame(<<"0", "R">> \o Filler(LongPayload - 300)) \o DoneFrame

LongStreams == {StreamLong, StreamShortLong, StreamWide}

(* a read delivers nothing, one of a few chunk lengths, all the free       *)
(* space takes, or all that is pending                                     *)
LongSizes(s, room) ==
    {n \in {0, 700, 1000, 1500, room, Len(s)} : n <= Len(s) /\ n <= room}

LongStart ==
    /\ ncalls = 0
    /\ \E q \in Questions, s \in LongStreams : AskStreamEnter(1, q, TRUE, s)
    /\ UNCHANGED appVars

LongRead ==
    /\ cur # 0
    /\ \E n \in LongSizes(src, cap - filled), oc \in BOOLEAN : ReadOk(cur, n, oc)
    /\ UNCHANGED appVars

LongReadErr ==
    /\ cur # 0
    /\ ReadErr(cur)
    /\ UNCHANGED appVars

NextLong ==
    \/ LongStart
    \/ LongRead
    \/ LongReadErr

SpecLong == Init /\ [][NextLong]_vars

-----------------------------------------------------------------------------
(* main.rs: GUIMsg *)
PartialMsg(c, resp) == [type |-> "partial", call |-> c, resp |-> resp]
FlushMsg(c) == [type |-> "flush", call |-> c, resp |-> ResponseDefault]

(* Poll applying a partial whether or not a call is in flight *)
PollIgnoresLoading(queue, load, resp) ==
    LET same == [loading |-> load, response |-> resp, panic |-> FALSE,
                 appended |-> FALSE]
    IN  IF queue = <<>> THEN same
        ELSE LET msg == Head(queue)
             IN  IF msg.type = "partial"
                 THEN IF msg.resp.choices = <<>>
                      THEN [same EXCEPT !.panic = TRUE]
                      ELSE LET delta == msg.resp.choices[1].delta
                           IN  IF IsSome(delta) /\ IsSome(Unwrap(delta).content)
                               THEN [same EXCEPT
                                       !.response = resp \o Unwrap(Unwrap(delta).content),
                                       !.appended = TRUE]
                               ELSE same
                 ELSE IF msg.type = "flush" /\ load
                 THEN [same EXCEPT !.loading = FALSE]
                 ELSE same

(* App::update line 117-140: the try_recv match on the head of com.        *)
(* Gives loading, response, and whether the frame panicked (line 126).     *)
Poll(queue, load, resp) ==
    LET same == [loading |-> load, response |-> resp, panic |-> FALSE,
                 appended |-> FALSE]
    IN  IF queue = <<>> THEN same
        ELSE LET msg == Head(queue)
             IN  IF msg.type = "partial" /\ load
                 THEN IF msg.resp.choices = <<>>
                      THEN [same EXCEPT !.panic = TRUE]
                      ELSE LET delta == msg.resp.choices[1].delta
                           IN  IF IsSome(delta) /\ IsSome(Unwrap(delta).content)
                               THEN [same EXCEPT
                                       !.response = resp \o Unwrap(Unwrap(delta).content),
                                       !.appended = TRUE]
                               ELSE same
                 ELSE IF msg.type = "flush" /\ load
                 THEN [same EXCEPT !.loading = FALSE]
                 ELSE same

(* MayStart without the check of loading *)
MayStartAlways(enter, load) == enter

(* App::update line 212-213: Enter starts a call *)
MayStart(enter, load) == enter /\ ~load

(* App::update, one frame up to where it returns or blocks: the poll, the  *)
(* Enter handler (line 212-243) with prompt q, the Escape handler up to    *)
(* handle_hotkey (line 245-249).                                           *)
UIUpdate(enter, q, escape) ==
    LET p == Poll(com, loading, uiResponse)
        start == ~p.panic /\ MayStart(enter, p.loading) /\ uiCall < MaxCalls
        c == uiCall + 1
    IN  /\ uiPc = "idle"
        /\ com' = IF com = <<>> THEN com ELSE Tail(com)
        /\ shown' = IF p.appended THEN shown \cup {<<Head(com).call, uiCall>>} ELSE shown
        /\ dropped' = IF com # <<>> /\ Head(com).type = "partial" /\ ~loading
                      THEN dropped \cup {Head(com).call} ELSE dropped
        /\ loading' = (p.loading \/ start)
        /\ uiResponse' = IF start THEN <<>> ELSE p.response
        /\ uiCall' = IF start THEN c ELSE uiCall
        /\ prompt' = IF start THEN [prompt EXCEPT ![c] = q] ELSE prompt
        /\ worker' = IF start THEN [worker EXCEPT ![c] = "spawned"] ELSE worker
        /\ relay' = IF start THEN [relay EXCEPT ![c] = "run"] ELSE relay
        /\ uiPc' = IF p.panic THEN "panicked"
                   ELSE IF escape THEN "hotkey" ELSE "idle"
        /\ UNCHANGED <<fwdLog, flushes, poisoned>>
        /\ UNCHANGED <<clientVars, sseVars, chanVars>>

(* handle_hotkey returned (line 249-254): the UI thread is at write() *)
UIHotkey ==
    /\ uiPc = "hotkey"
    /\ uiPc' = "lock"
    /\ UNCHANGED <<com, fwdLog, flushes, worker, relay, poisoned, loading, uiResponse,
                   uiCall, shown, dropped, prompt>>
    /\ UNCHANGED <<clientVars, sseVars, chanVars>>

(* line 255-257: the write lock is free; unwrap panics on a poisoned lock *)
UIClear ==
    /\ uiPc = "lock"
    /\ cur = 0
    /\ IF poisoned
       THEN /\ uiPc' = "panicked"
            /\ UNCHANGED <<clientVars, sseVars, chanVars>>
       ELSE /\ uiPc' = "idle"
            /\ ClearConversation
    /\ UNCHANGED <<com, fwdLog, flushes, worker, relay, poisoned, loading, uiResponse,
                   uiCall, shown, dropped, prompt>>

(* what the producer thread does when a step of ask_stream left the call   *)
(* with outcome r: line 225-230                                            *)
WorkerAfter(r) ==
    IF r = "running" THEN "running"
    ELSE IF r = "ok" THEN "flush"
    ELSE "panicked"

(* producer thread, line 225-228: write() granted, ask_stream entered *)
WorkerAcquire(c, ok, s) ==
    /\ worker[c] = "spawned"
    /\ cur = 0
    /\ IF poisoned
       THEN /\ worker' = [worker EXCEPT ![c] = "panicked"]
            /\ chanOpen' = [chanOpen EXCEPT ![c] = FALSE]
            /\ UNCHANGED <<clientVars, sseVars, chan, sentLog, poisoned>>
       ELSE /\ AskStreamEnter(c, prompt[c], ok, s)
            /\ worker' = [worker EXCEPT ![c] = WorkerAfter(result'[c])]
            /\ poisoned' = (WorkerAfter(result'[c]) = "panicked")
    /\ UNCHANGED <<com, fwdLog, flushes, relay, loading, uiResponse, uiPc, uiCall,
                   shown, dropped, prompt>>

(* producer thread inside ask_stream: one read of the source *)
WorkerRead(c, n, oc) ==
    /\ worker[c] = "running"
    /\ ReadOk(c, n, oc)
    /\ worker' = [worker EXCEPT ![c] = WorkerAfter(result'[c])]
    /\ poisoned' = (poisoned \/ WorkerAfter(result'[c]) = "panicked")
    /\ UNCHANGED <<com, fwdLog, flushes, relay, loading, uiResponse, uiPc, uiCall,
                   shown, dropped, prompt>>

WorkerReadErr(c) ==
    /\ worker[c] = "running"
    /\ ReadErr(c)
    /\ worker' = [worker EXCEPT ![c] = WorkerAfter(result'[c])]
    /\ poisoned' = (poisoned \/ WorkerAfter(result'[c]) = "panicked")
    /\ UNCHANGED <<com, fwdLog, flushes, relay, loading, uiResponse, uiPc, uiCall,
                   shown, dropped, prompt>>

(* producer thread, line 230 *)
WorkerFlush(c) ==
    /\ worker[c] = "flush"
    /\ com' = Append(com, FlushMsg(c))
    /\ flushes' = [flushes EXCEPT ![c] = @ + 1]
    /\ worker' = [worker EXCEPT ![c] = "done"]
    /\ UNCHANGED <<fwdLog, relay, poisoned, loading, uiResponse, uiPc, uiCall, shown,
                   dropped, prompt>>
    /\ UNCHANGED <<clientVars, sseVars, chanVars>>

(* RelayForward taking the newest partial of the queue *)
RelayForwardNewest(c) ==
    /\ relay[c] = "run"
    /\ chan[c] # <<>>
    /\ chan' = [chan EXCEPT ![c] = SubSeq(@, 1, Len(@) - 1)]
    /\ com' = Append(com, PartialMsg(c, chan[c][Len(chan[c])]))
    /\ fwdLog' = [fwdLog EXCEPT ![c] = Append(@, chan[c][Len(chan[c])])]
    /\ UNCHANGED <<flushes, worker, relay, poisoned, loading, uiResponse, uiPc,
                   uiCall, shown, dropped, prompt>>
    /\ UNCHANGED <<clientVars, sseVars, chanOpen, sentLog>>

(* relay thread, line 235-240: one received partial forwarded *)
RelayForward(c) ==
    /\ relay[c] = "run"
    /\ chan[c] # <<>>
    /\ chan' = [chan EXCEPT ![c] = Tail(@)]
    /\ com' = Append(com, PartialMsg(c, Head(chan[c])))
    /\ fwdLog' = [fwdLog EXCEPT ![c] = Append(@, Head(chan[c]))]
    /\ UNCHANGED <<flushes, worker, relay, poisoned, loading, uiResponse, uiPc, uiCall,
                   shown, dropped, prompt>>
    /\ UNCHANGED <<clientVars, sseVars, chanOpen, sentLog>>

(* relay thread, line 235: recv() fails, the sender is gone *)
RelayExit(c) ==
    /\ relay[c] = "run"
    /\ chan[c] = <<>>
    /\ ~chanOpen[c]
    /\ relay' = [relay EXCEPT ![c] = "done"]
    /\ UNCHANGED <<com, fwdLog, flushes, worker, poisoned, loading, uiResponse, uiPc,
                   uiCall, shown, dropped, prompt>>
    /\ UNCHANGED <<clientVars, sseVars, chanVars>>

-----------------------------------------------------------------------------
(* SpecApp: the UI thread, the producer and relay threads of up to         *)
(* MaxCalls calls, reads delivering frames.                                *)
AppStreams == {StreamHi, StreamBad}
AppPrompts == {<<"q", "1">>}
AppUpdate == \E enter \in BOOLEAN, q \in AppPrompts, escape \in BOOLEAN :
                 UIUpdate(enter, q, escape)
AppHotkey == UIHotkey
AppClear == UIClear
AppAcquire == \E c \in Calls, ok \in BOOLEAN, s \in AppStreams : WorkerAcquire(c, ok, s)
AppRead == \E c \in Calls, n \in FrameSizes(src), oc \in BOOLEAN : WorkerRead(c, n, oc)
AppReadErr == \E c \in Calls : WorkerReadErr(c)
AppFlush == \E c \in Calls : WorkerFlush(c)
AppForward == \E c \in Calls : RelayForward(c)
AppRelayExit == \E c \in Calls : RelayExit(c)

NextApp ==
    \/ AppUpdate
    \/ AppHotkey
    \/ AppClear
    \/ AppAcquire
    \/ AppRead
    \/ AppReadErr
    \/ AppFlush
    \/ AppForward
    \/ AppRelayExit

SpecApp == Init /\ [][NextApp]_vars

-----------------------------------------------------------------------------
(* SpecMerge: the loop body of request_stream (decode, merge_delta, send)  *)
(* applied to up to MaxFragments events, each any of Fragments.            *)
MaxFragments == 3

Fragments ==
    {<<"0", "R">>, <<"0", "c", "H", "e", "l">>, <<"0", "c", "l", "o">>, <<"0", "r">>,
     <<"1", "R", "A">>, <<"1", "c", "B">>, <<"2", "R", "B">>, <<"2", "e">>,
     <<"1", "n">>, <<"0", "R", "A", ",", "1", "R", "B">>}

MergeFragment(p) ==
    LET ev == OnEvent(response, p)
    IN  /\ result[1] = "none"
        /\ Len(yielded[1]) < MaxFragments
        /\ yielded' = [yielded EXCEPT ![1] = Append(@, p)]
        /\ response' = ev.resp
        /\ sentLog' = [sentLog EXCEPT ![1] = @ \o ev.sent]
        /\ result' = IF ev.kind = "ok" THEN result ELSE [result EXCEPT ![1] = ev.kind]
        /\ UNCHANGED <<conversation, cur, pc, question, request, preConv, callKind,
                       ncalls>>
        /\ UNCHANGED <<src, stream, buf, cap, filled, readFailed, chan, chanOpen>>
        /\ UNCHANGED appVars

MergeStep == \E p \in Fragments : MergeFragment(p)

NextMerge == MergeStep

SpecMerge == Init /\ [][NextMerge]_vars

-----------------------------------------------------------------------------
(* Claims *)

(* The payloads the parser yields when the source hands over the whole     *)
(* stream s in one read and every later read returns Ok(0).                *)
RECURSIVE Drain(_, _, _, _)
Drain(b, c, f, acc) ==
    LET r == SSEScan(b, c, f, TRUE)
    IN  IF r.kind = "yield" /\ r.filled >= 0
        THEN Drain(r.buf, EnterNext(c, r.filled), r.filled, Append(acc, r.data))
        ELSE acc

OneShot(s) == Drain(s, EnterNext(InitialCapacity, 0), Len(s), <<>>)

EndsWithDone(s) ==
    /\ Len(s) >= Len(DoneFrame)
    /\ SubSeq(s, Len(s) - Len(DoneFrame) + 1, Len(s)) = DoneFrame

CallOver(c) == result[c] \notin {"none", "running"}

(* C1: for a stream of well-formed frames ending with the [DONE] frame,    *)
(* cut into read chunks in any way, the parser yields the payloads it      *)
(* yields when the stream comes in one read: at every moment a prefix of   *)
(* them, all of them once the sequence ended on the sentinel, never the    *)
(* sentinel, and it does not panic.                                        *)
C1_ChunkingIndependent ==
    (callKind[1] = "ask_stream" /\ EndsWithDone(stream)) =>
        /\ IsPrefix(yielded[1], OneShot(stream))
        /\ result[1] # "panic_sse"
        /\ \A i \in 1..Len(yielded[1]) : yielded[1][i] # DONE
        /\ (result[1] \in {"ok", "panic_index", "panic_unwrap"} /\ ~readFailed[1])
               => yielded[1] = OneShot(stream)


(* the first complete frame of the filled region [0, f) is the sentinel *)
DoneBuffered(b, f) ==
    LET sp == FindDelim(SubSeq(b, 1, f))
    IN  sp >= PrefixLen /\ SubSeq(b, PrefixLen + 1, sp) = DONE

(* the sequence of call c ended because next() met the sentinel *)
EndedOnSentinel(c) ==
    /\ callKind[c] = "ask_stream"
    /\ result[c] \in {"ok", "panic_index", "panic_unwrap"}
    /\ ~readFailed[c]

(* Later calls of next() looked at *)
LaterCalls == 2

(* every one of the next k calls of next() from (b, c, f) returns None on  *)
(* the sentinel, whatever chunks of s its reads deliver                    *)
RECURSIVE AllDone(_, _, _, _, _)
AllDone(b, c, f, s, k) ==
    \/ k = 0
    \/ \A n \in 0..Len(s) :
           LET r == SSEScan(ReadInto(b, f, SubSeq(s, 1, n)), c, f + n, TRUE)
           IN  /\ r.kind = "done"
               /\ AllDone(r.buf, EnterNext(c, r.filled), r.filled,
                          SubSeq(s, n + 1, Len(s)), k - 1)

(* the read of the pending call of next() delivers n bytes and next() ends *)
(* the sequence on the sentinel: the parser as that call leaves it         *)
EndsOnSentinel(n) ==
    SSEScan(ReadInto(buf, filled, SubSeq(src, 1, n)), cap, filled + n, TRUE)

HiText == <<"H", "i">>

(* C6: with the sentinel frame first in the buffer, whatever the next read *)
(* delivers, next() ends the sequence; the sentinel is never yielded; once *)
(* the sequence ended on the sentinel no later call of next() yields       *)
(* anything, whatever follows in the stream; and the stream role frame,    *)
(* "Hi" frame, sentinel frame gives two payloads merged into one Choice    *)
(* of text "Hi".                                                           *)
C6_SentinelEndsSequence ==
    /\ \A i \in 1..Len(yielded[1]) : yielded[1][i] # DONE
    /\ (pc = "read" /\ filled >= 0 /\ DoneBuffered(buf, filled)) =>
           AllDone(buf, cap, filled, src, 1)
    /\ (pc = "read" /\ filled >= 0) =>
           \A n \in 0..Len(src) :
               EndsOnSentinel(n).kind = "done" =>
                   AllDone(EndsOnSentinel(n).buf, EnterNext(cap, EndsOnSentinel(n).filled),
                           EndsOnSentinel(n).filled, SubSeq(src, n + 1, Len(src)),
                           LaterCalls)
    /\ (EndedOnSentinel(1) /\ stream = StreamHi) =>
           /\ yielded[1] = <<<<"0", "R">>, <<"0", "c", "H", "i">>>>
           /\ Len(response.choices) = 1
           /\ response.choices[1].message = Some(Message("assistant", HiText))

C6_Witness ==
    /\ EndedOnSentinel(1)
    /\ stream = StreamAfter
    /\ yielded[1] = <<<<"0", "R", "A">>>>

C6_WitnessHi ==
    /\ EndedOnSentinel(1)
    /\ stream = StreamHi
    /\ Len(yielded[1]) = 2


-----------------------------------------------------------------------------
(* Claims on the threads of main.rs (SpecApp) *)

(* C2: when the Flush of a call is on the UI channel every partial of that *)
(* call was enqueued before it (none is still waiting in the relay's       *)
(* queue), and the UI drops no partial of a call that completed.           *)
C2_FlushAfterPartials ==
    \A c \in Calls :
        /\ flushes[c] > 0 => chan[c] = <<>>
        /\ result[c] = "ok" => c \notin dropped

(* C3: a producer thread that has ended, whatever ask_stream returned, has *)
(* sent exactly one Flush.                                                 *)
C3_FlushAfterEveryCall ==
    \A c \in Calls :
        /\ flushes[c] <= 1
        /\ worker[c] \in {"done", "panicked"} => flushes[c] = 1

(* C4: the UI thread is never at write() on the client's lock while a      *)
(* producer thread holds the lock inside ask_stream.                       *)
C4_UINeverWaitsForLock ==
    ~(uiPc = "lock" /\ cur # 0)

Active(c) == worker[c] \in {"spawned", "running"}

(* C10: at most one producer thread is waiting for the lock or inside      *)
(* ask_stream; while one is, loading is set and it is the call the UI      *)
(* started last; the thread inside ask_stream is the holder of the lock.   *)
C10_OneCallInFlight ==
    /\ \A c, d \in Calls : (Active(c) /\ Active(d)) => c = d
    /\ \A c \in Calls : Active(c) => (loading /\ uiCall = c)
    /\ \A c \in Calls : (worker[c] = "running") <=> (cur = c)

C10_Witness ==
    /\ worker[1] = "done"
    /\ worker[2] = "running"
    /\ Len(sentLog[2]) >= 1

(* the partials of call c waiting on the UI channel, in queue order *)
RECURSIVE PendingOf(_, _)
PendingOf(queue, c) ==
    IF queue = <<>> THEN <<>>
    ELSE IF Head(queue).type = "partial" /\ Head(queue).call = c
         THEN <<Head(queue).resp>> \o PendingOf(Tail(queue), c)
         ELSE PendingOf(Tail(queue), c)

IsSuffix(s, t) == Len(s) <= Len(t) /\ SubSeq(t, Len(t) - Len(s) + 1, Len(t)) = s

(* C9, as stated: every payload the parser yielded in a call has its       *)
(* partial on the UI channel once the relay of the call has ended.         *)
C9_EveryYieldForwarded ==
    \A c \in Calls : relay[c] = "done" => Len(fwdLog[c]) = Len(yielded[c])

(* C9, amended: the partials sent are the decoded payloads in the order    *)
(* yielded, all of them except a last payload at which the call was        *)
(* aborted; the relay enqueues them on the UI channel in that order, each  *)
(* once, and has enqueued all of them when it ends.                        *)
C9_PartialsInOrder ==
    \A c \in Calls :
        /\ Len(sentLog[c]) \in {Len(yielded[c]), Len(yielded[c]) - 1}
        /\ \A i \in 1..Len(sentLog[c]) : Decode(yielded[c][i]) = Some(sentLog[c][i])
        /\ Len(sentLog[c]) < Len(yielded[c]) =>
               result[c] \in {"err_decode", "panic_merge"}
        /\ fwdLog[c] \o chan[c] = sentLog[c]
        /\ IsSuffix(PendingOf(com, c), fwdLog[c])
        /\ relay[c] = "done" => fwdLog[c] = sentLog[c]

C9_Witness ==
    /\ relay[1] = "done"
    /\ Len(fwdLog[1]) = 2
    /\ Len(yielded[1]) = 2

-----------------------------------------------------------------------------
(* Claims on the client (Spec) *)

(* C5: no call of ask or ask_stream ends by panicking on a Response that   *)
(* has no first Choice or whose first Choice has no message.               *)
C5_NoMessageIsFailure ==
    \A c \in Calls : result[c] \notin {"panic_index", "panic_unwrap"}

(* C7: at the step a call returns a transport or decode failure the        *)
(* Conversation is the one before the call followed by the user message;   *)
(* and a streaming call whose last payload does not decode returned the    *)
(* decode failure.                                                         *)
C7_FailureKeepsConversation ==
    /\ [][\A c \in Calls :
            (result[c] \notin Errs /\ result'[c] \in Errs) =>
                conversation' = Append(preConv'[c], MessageUser(question'))]_vars
    /\ [](\A c \in Calls :
            (CallOver(c) /\ yielded[c] # <<>>
               /\ Decode(yielded[c][Len(yielded[c])]) = None) =>
                result[c] = "err_decode")

C7_Witness ==
    \E c \in Calls :
        /\ result[c] = "err_decode"
        /\ Len(sentLog[c]) >= 1
        /\ preConv[c] # <<>>

Count(x, seq) == Cardinality({i \in 1..Len(seq) : seq[i] = x})

(* C8: a call entered right after a call that failed in the transport,     *)
(* with the same question and the Conversation that call left, hands the   *)
(* transport a Request with the user message once, and the Conversation    *)
(* holds it once.                                                          *)
C8_RetryDoesNotDuplicate ==
    \A c \in Calls :
        (/\ c > 1 /\ ncalls = c
         /\ result[c - 1] = "err_transport"
         /\ preConv[c] = Append(preConv[c - 1], MessageUser(question))
         /\ Count(MessageUser(question), preConv[c - 1]) = 0) =>
            /\ Count(MessageUser(question), Unwrap(request).messages) = 1
            /\ Count(MessageUser(question), conversation) = 1


-----------------------------------------------------------------------------
(* Claims on ask_stream and the Request (Spec) *)

(* the text fragment p (a payload) carries for the Choice of index i *)
ChoiceText(ch, i) ==
    IF ch.index = i /\ IsSome(ch.delta) /\ IsSome(Unwrap(ch.delta).content)
    THEN Unwrap(Unwrap(ch.delta).content)
    ELSE <<>>

FragText(p, i) ==
    LET d == Unwrap(Decode(p))
    IN  Concat([k \in 1..Len(d.choices) |-> ChoiceText(d.choices[k], i)])

StreamText(ps, i) == Concat([k \in 1..Len(ps) |-> FragText(ps[k], i)])

(* the choices of fragment p that carry a role for the Choice of index i *)
RoleChoices(p, i) ==
    LET d == Unwrap(Decode(p))
    IN  {j \in 1..Len(d.choices) :
            /\ d.choices[j].index = i
            /\ IsSome(d.choices[j].delta)
            /\ IsSome(Unwrap(d.choices[j].delta).role)}

(* the first fragment is the one role-bearing fragment for index i *)
RoleFirst(ps, i) ==
    /\ ps # <<>>
    /\ \A k \in 1..Len(ps) : IsSome(Decode(ps[k]))
    /\ Cardinality(RoleChoices(ps[1], i)) = 1
    /\ \A k \in 2..Len(ps) : RoleChoices(ps[k], i) = {}

FirstRole(ps, i) ==
    LET d == Unwrap(Decode(ps[1]))
        j == CHOOSE k \in RoleChoices(ps[1], i) : TRUE
    IN  Unwrap(Unwrap(d.choices[j].delta).role)

(* C11: at the step ask_stream returns Ok the Conversation is the one at   *)
(* entry plus two messages, the user message and the first message of the  *)
(* accumulated Response; when the fragments received were a role-bearing   *)
(* one followed by others without role, that message has the role of the   *)
(* first and the texts for index 0 concatenated in receipt order.          *)
C11_StreamAppendsAccumulated ==
    [][\A c \in Calls :
         (result[c] # "ok" /\ result'[c] = "ok" /\ callKind'[c] = "ask_stream") =>
            /\ Len(conversation') = Len(preConv[c]) + 2
            /\ SubSeq(conversation', 1, Len(preConv[c]) + 1) =
                   Append(preConv[c], MessageUser(question))
            /\ Some(conversation'[Len(conversation')]) = response'.choices[1].message
            /\ RoleFirst(yielded'[c], 0) =>
                   conversation'[Len(conversation')] =
                       Message(FirstRole(yielded'[c], 0), StreamText(yielded'[c], 0))]_vars

C11_Witness ==
    /\ result[2] = "ok"
    /\ callKind[2] = "ask_stream"
    /\ Len(preConv[2]) = 2
    /\ yielded[2] = <<<<"0", "R">>, <<"0", "c", "H", "i">>>>
    /\ conversation =
           preConv[2] \o <<MessageUser(question), Message("assistant", <<"H", "i">>)>>

(* C12: the Request a call hands to the transport has the system message  *)
(* first and then the Conversation of the call, user message included, in  *)
(* order; the system message is never an element of the Conversation.      *)
C12_SystemMessageFirst ==
    /\ \A i \in 1..Len(conversation) : conversation[i] # MessageSystem(SYSTEM_MSG)
    /\ \A i \in 1..Len(conversation) : conversation[i].role # "system"
    /\ ncalls > 0 =>
          /\ IsSome(request)
          /\ Unwrap(request).messages[1] = MessageSystem(SYSTEM_MSG)
          /\ Tail(Unwrap(request).messages) =
                 Append(preConv[ncalls], MessageUser(question))
          /\ cur # 0 => Tail(Unwrap(request).messages) = conversation

C12_Witness ==
    /\ ncalls = 2
    /\ cur = 2
    /\ Len(Unwrap(request).messages) = 4
    /\ Unwrap(request).messages[3].role = "assistant"


-----------------------------------------------------------------------------
(* Claims on merge_delta (SpecMerge) *)

Indices == 0..2

(* C13: after merging a role-bearing fragment for an index and then        *)
(* fragments without role, the Choice at that index has a message with     *)
(* that role and the fragments' texts for the index in receipt order;      *)
(* role with '', 'Hel', 'lo' gives 'Hello'.                                *)
C13_TextInReceiptOrder ==
    /\ \A i \in Indices :
          (result[1] = "none" /\ RoleFirst(yielded[1], i)) =>
              /\ Len(response.choices) > i
              /\ response.choices[i + 1].message =
                     Some(Message(FirstRole(yielded[1], i), StreamText(yielded[1], i)))
    /\ yielded[1] = <<<<"0", "R">>, <<"0", "c", "H", "e", "l">>, <<"0", "c", "l", "o">>>> =>
          response.choices[1].message =
              Some(Message("assistant", <<"H", "e", "l", "l", "o">>))

C13_Witness ==
    /\ yielded[1] = <<<<"0", "R">>, <<"0", "c", "H", "e", "l">>, <<"0", "c", "l", "o">>>>
    /\ result[1] = "none"
    /\ Len(response.choices) = 1

(* the fragments of one Choice *)
SingleChoice == {p \in Fragments : Len(Unwrap(Decode(p)).choices) = 1}
IndexIn(p) == Unwrap(Decode(p)).choices[1].index
Merged(resp, p) == MergeDelta(resp, Unwrap(Decode(p)))

(* C14: merging a fragment of index i into a Response of fewer than i + 1  *)
(* Choices gives exactly i + 1 Choices, the added ones below i default,    *)
(* the ones held before unchanged; index 2 into the empty Response gives   *)
(* three, 0 and 1 default, and the third with the fragment's role and text.*)
C14_GapFill ==
    /\ result[1] = "none" =>
          \A p \in SingleChoice :
              Len(response.choices) < IndexIn(p) + 1 =>
                  LET after == Merged(response, p).resp.choices
                      before == response.choices
                  IN  /\ Len(after) = IndexIn(p) + 1
                      /\ \A k \in (Len(before) + 1)..IndexIn(p) : after[k] = ChoiceDefault
                      /\ \A k \in 1..Len(before) : after[k] = before[k]
    /\ yielded[1] = <<<<"2", "R", "B">>>> =>
          /\ Len(response.choices) = 3
          /\ response.choices[1] = ChoiceDefault
          /\ response.choices[2] = ChoiceDefault
          /\ response.choices[3].message = Some(Message("assistant", <<"B">>))

C14_Witness ==
    /\ yielded[1] = <<<<"2", "R", "B">>>>
    /\ Len(response.choices) = 3

(* the indices fragment p addresses *)
IndicesOf(p) ==
    LET d == Unwrap(Decode(p))
    IN  {d.choices[k].index : k \in 1..Len(d.choices)}

(* C15: two fragments addressing different indices, merged in either      *)
(* order into any accumulated Response, give the same Response (and the    *)
(* same failure, if one fails).                                            *)
C15_DifferentIndicesCommute ==
    result[1] = "none" =>
        \A p, q \in Fragments :
            IndicesOf(p) \cap IndicesOf(q) = {} =>
                LET pq == Merged(Merged(response, p).resp, q)
                    qp == Merged(Merged(response, q).resp, p)
                    okpq == Merged(response, p).ok /\ pq.ok
                    okqp == Merged(response, q).ok /\ qp.ok
                IN  /\ okpq = okqp
                    /\ okpq => pq.resp = qp.resp

C15_Witness ==
    /\ yielded[1] = <<<<"1", "R", "A">>, <<"0", "R">>, <<"1", "c", "B">>>>
    /\ response.choices[2].message = Some(Message("assistant", <<"A", "B">>))
    /\ response.choices[1].message = Some(Message("assistant", <<>>))


-----------------------------------------------------------------------------
(* Claims on the buffer of SSEStream *)

(* C19: whenever the parser is at a read, the Vec has at least MinSlack    *)
(* bytes past the filled mark.                                             *)
C19_SlackBeforeEveryRead ==
    pc = "read" => cap - filled >= MinSlack


(* a delimiter lies within the filled region [0, f) of the buffer *)
FrameBuffered(b, f) == f >= 0 /\ FindDelim(Lossy(Slice(b, 0, f))) >= 0

(* what the scan gives after a read of the first n pending bytes *)
ScanAfterRead(n, oc) ==
    SSEScan(ReadInto(buf, filled, SubSeq(src, 1, n)), cap, filled + n, oc)

(* C16: at a read with no complete frame in the filled region, a read of   *)
(* zero bytes leaves next() in its loop: nothing is returned.              *)
C16_ZeroReadRetries ==
    (pc = "read" /\ ~FrameBuffered(buf, filled)) =>
        \A oc \in BOOLEAN : ScanAfterRead(0, oc).kind = "none"

(* C17: the parser is never at a read while a complete frame is in the     *)
(* filled region (the frame would wait for the read, and be lost with it). *)
C17_RescanBeforeRead ==
    ~(pc = "read" /\ FrameBuffered(buf, filled))

(* C18: whenever a scan finds a delimiter, the delimiter lies within the   *)
(* filled region, and after a yield the filled mark is within 0..capacity. *)
C18_ScanWithinFilled ==
    pc = "read" =>
        \A n \in 0..Min(Len(src), cap - filled), oc \in BOOLEAN :
            LET r == ScanAfterRead(n, oc)
                sp == FindDelim(Lossy(ReadInto(buf, filled, SubSeq(src, 1, n))))
            IN  /\ r.kind # "none" => sp + DelimLen <= filled + n
                /\ r.kind = "yield" => r.filled \in 0..cap


-----------------------------------------------------------------------------
(* Claims on the poll of App::update (SpecApp) *)

(* this step took a message from the UI channel *)
Dequeued == Len(com') = Len(com) - 1

(* this step is a frame in which Enter started a call *)
Started == uiCall' # uiCall

(* C20: a step takes at most one message from the UI channel, its head;    *)
(* the displayed response changes only by the text of a partial taken      *)
(* while loading (or is cleared by a call started); loading falls only by  *)
(* a Flush taken while loading, and such a Flush makes it fall (unless the *)
(* same frame starts a call); a message taken while not loading leaves the *)
(* response and loading as they were (unless the same frame starts a call).*)
C20_PollAppliesOne ==
    [][/\ Len(com') >= Len(com) - 1
       /\ Dequeued => com' = Tail(com)
       /\ uiResponse' # uiResponse =>
             \/ /\ Dequeued /\ loading /\ Head(com).type = "partial"
                /\ Len(Head(com).resp.choices) >= 1
                /\ IsSome(Head(com).resp.choices[1].delta)
                /\ IsSome(Unwrap(Head(com).resp.choices[1].delta).content)
                /\ uiResponse' = uiResponse
                       \o Unwrap(Unwrap(Head(com).resp.choices[1].delta).content)
             \/ Started /\ uiResponse' = <<>>
       /\ (loading /\ ~loading') => (Dequeued /\ Head(com).type = "flush")
       /\ (Dequeued /\ loading /\ Head(com).type = "flush") => (~loading' \/ Started)
       /\ (Dequeued /\ ~loading) =>
             \/ uiResponse' = uiResponse /\ loading' = loading
             \/ Started]_vars

C20_Witness ==
    /\ dropped # {}
    /\ shown # {}
    /\ ~loading
    /\ uiResponse # <<>>


-----------------------------------------------------------------------------
(* Claims settled last *)

(* C21: every fragment the UI appended to the displayed response was a     *)
(* fragment of the call displayed at that moment (the call started last).  *)
C21_OnlyOwnFragmentsShown ==
    \A pair \in shown : pair[1] = pair[2]

(* C22: the parser is never at a read that can take no byte of what the    *)
(* source still has to deliver and after which next() would not return:    *)
(* from such a state every read gives Ok(0) and the loop never ends.       *)
C22_ReadCanTakeBytes ==
    (pc = "read" /\ src # <<>>) =>
        \/ cap - filled > 0
        \/ \E oc \in BOOLEAN : ScanAfterRead(0, oc).kind # "none"

(* the fragments merged so far that addressed index i *)
Received(i) ==
    \E k \in 1..Len(sentLog[1]) :
        \E j \in 1..Len(sentLog[1][k].choices) : sentLog[1][k].choices[j].index = i

(* C23: every Choice of the accumulated Response that received a fragment  *)
(* has its index field equal to its position.                              *)
C23_IndexIsPosition ==
    \A k \in 1..Len(response.choices) :
        Received(k - 1) => response.choices[k].index = k - 1

=============================================================================
